---- MODULE Spec2Model ----
(***************************************************************************)
(* Model of app/core/model_loader.py: the in-process model cache           *)
(* (ModelLoader) of the ML model serving platform.                         *)
(*                                                                         *)
(* self._cache is a Python dict: it iterates in insertion order, an        *)
(* assignment to a key already present keeps that key's position, and a    *)
(* deleted key that is inserted again goes to the end.  It is modelled as  *)
(* a sequence of [key, value] records in iteration order.                  *)
(*                                                                         *)
(* The file system is not state of the program: what a call finds at       *)
(* file_path (nothing, a file joblib can read, a file only pickle can      *)
(* read, a file neither can read) is an input of the call.                 *)
(*                                                                         *)
(* Two specifications share the actions.  Spec is the loader with the      *)
(* record of the most recent call; SpecLRU also tracks, call by call, the  *)
(* order in which the cached identifiers were last accessed.               *)
(*                                                                         *)
(* SpecConc is the same loader called by several threads at once: the      *)
(* class takes no lock, so every statement of load_model, _add_to_cache    *)
(* and remove_from_cache is a step of its own and the steps of different   *)
(* callers interleave.                                                     *)
(*                                                                         *)
(* The HTTP layer (app/api/v1, app/api/dependencies.py, app/main.py) is    *)
(* modelled request by request over the rows of the models and api_keys    *)
(* tables.  SpecModels is the model management endpoints, SpecVersions     *)
(* uploads and soft deletes, SpecPredict the prediction endpoint in front  *)
(* of the loader, SpecApp the API-key requests against the application as  *)
(* main.py builds it, and SpecKeys the same requests against an            *)
(* application that also includes api_keys.router.                         *)
(*                                                                         *)
(* SpecUsers is registration and profile update over the users table,      *)
(* SpecTypes the prediction endpoint of a deployment whose settings allow  *)
(* model types other than sklearn, and SpecLimiter the rate limiter of     *)
(* app/core/rate_limiter.py over the sorted set its store keeps for a key. *)
(***************************************************************************)
EXTENDS Integers, Sequences, FiniteSets, TLC

\* ---- bounds of the model ------------------------------------------------
MaxCacheSize == 2   \* cache_size is drawn from 1..MaxCacheSize
NumObjs == 2        \* distinct deserialized model objects 1..NumObjs
NumThreads == 2     \* concurrent callers of the one model_loader, 1..NumThreads

\* model identifiers (A = 1, B = 2, C = 3, ...): one more than the largest
\* capacity, so that a full cache always meets an identifier it does not hold
ModelIds == 1..(MaxCacheSize + 1)
Objs == 1..NumObjs
None == 0           \* Python's None / "no value"

\* model_record.file_path: every model record names its own artifact file
FilePath(model_id) == model_id

\* What a call can find at file_path.  exists: Path(file_path).exists();
\* jl / pk: whether joblib.load / pickle.load of the file succeeds (pk is
\* looked at only after joblib failed); obj: the model object a successful
\* deserializer yields.
MissingFile == [exists |-> FALSE, jl |-> FALSE, pk |-> FALSE, obj |-> None]
CorruptFile == [exists |-> TRUE, jl |-> FALSE, pk |-> FALSE, obj |-> None]
FileStates ==
    {MissingFile, CorruptFile}
    \cup {[exists |-> TRUE, jl |-> j, pk |-> TRUE, obj |-> o] : j \in BOOLEAN, o \in Objs}

VARIABLES
    cache_size,   \* self.cache_size
    cache,        \* self._cache, in dict iteration (insertion) order
    last,         \* the most recent call: arguments, cache before it, result, I/O, log
    resident,     \* ids loaded successfully and not reported evicted/removed/cleared since
    recency,      \* cached ids, least recently accessed first (hit or successful load)
    threads,      \* SpecConc: for every caller, the statement it is at and its locals
    models,       \* the rows of the "models" table, oldest first
    api_keys,     \* the rows of the "api_keys" table, oldest first
    issued,       \* how many API keys generate_api_key has produced
    now,          \* the clock, in days
    resp,         \* the most recent HTTP exchange: the request and its response
    users,        \* the rows of the "users" table, oldest first
    allowed_model_types,  \* settings.ALLOWED_MODEL_TYPES, read from the environment
    rate_limiter, \* the global _rate_limiter: "unset", or the client it was built with
    redis,        \* the sorted set and the expiry the store keeps under the redis_key
    checks        \* the check_rate_limit calls made so far, oldest first

vars == <<cache_size, cache, last, resident, recency, threads, models, api_keys, issued,
          now, resp, users, allowed_model_types, rate_limiter, redis, checks>>

\* the rate limiter and its store
limiter == <<rate_limiter, redis, checks>>

\* the API keys and the clock that expires them
keys == <<api_keys, issued, now>>

\* the database and the HTTP layer, which the loader never touches
http == <<models, keys, resp, users, allowed_model_types, limiter>>

\* what the sequential specifications of the loader leave alone
elsewhere == <<threads, http>>

\* ---- the dict -------------------------------------------------------------
\* the keys of the dict, as a set
Keys(c) == {c[i].key : i \in 1..Len(c)}

\* `k in d`
InDict(c, k) == k \in Keys(c)

\* d[k], for a key that is present
DictGet(c, k) == c[CHOOSE i \in 1..Len(c) : c[i].key = k].value

\* `del d[k]`, for a key that is present: the other entries keep their order
DictDel(c, k) == SelectSeq(c, LAMBDA e : e.key # k)

\* `d[k] = v`: a present key keeps its position, a new key goes to the end
DictSet(c, k, v) ==
    IF InDict(c, k)
    THEN [i \in 1..Len(c) |-> IF c[i].key = k THEN [key |-> k, value |-> v] ELSE c[i]]
    ELSE Append(c, [key |-> k, value |-> v])

\* `next(iter(d))`: the first key in insertion order (d is not empty)
FirstKey(c) == c[1].key

\* ---- log lines and exceptions ---------------------------------------------
LogLine(level, event, arg) == [level |-> level, event |-> event, arg |-> arg]

NoException == [type |-> "None", msg |-> <<>>]

\* FileNotFoundError(f"Model file not found: {file_path}")
FileNotFound(file_path) ==
    [type |-> "FileNotFoundError",
     msg |-> <<[text |-> "Model file not found: ", arg |-> file_path]>>]

\* str(joblib_error), str(pickle_error): the message of the error the
\* deserializer raised on the file at file_path
JoblibErrorStr(file_path) == [text |-> "joblib_error", arg |-> file_path]
PickleErrorStr(file_path) == [text |-> "pickle_error", arg |-> file_path]

\* Exception(f"Failed to load model with both joblib and pickle.
\*             Joblib: {str(joblib_error)}, Pickle: {str(pickle_error)}")
BothFailed(file_path) ==
    [type |-> "Exception",
     msg |-> <<[text |-> "Failed to load model with both joblib and pickle.", arg |-> None],
               JoblibErrorStr(file_path), PickleErrorStr(file_path)>>]

\* ---- ModelLoader ----------------------------------------------------------
\* _add_to_cache with the size test off by one (`>` for `>=`)
AddToCacheOffByOne(c, size, model_id, model) ==
    IF Len(c) > size
    THEN [cache |-> DictSet(DictDel(c, FirstKey(c)), model_id, model),
          log |-> <<LogLine("info", "Evicted model", FirstKey(c))>>]
    ELSE [cache |-> DictSet(c, model_id, model), log |-> <<>>]

\* _add_to_cache evicting whenever the dict holds anything (`>= 1` for
\* `>= self.cache_size`)
AddToCacheAlwaysEvicts(c, size, model_id, model) ==
    IF Len(c) >= 1
    THEN [cache |-> DictSet(DictDel(c, FirstKey(c)), model_id, model),
          log |-> <<LogLine("info", "Evicted model", FirstKey(c))>>]
    ELSE [cache |-> DictSet(c, model_id, model), log |-> <<>>]

\* _add_to_cache(model_id, model): the new dict and the lines it logs.
\* cache_size >= 1, so the dict is not empty when len(d) >= cache_size.
AddToCache(c, size, model_id, model) ==
    IF Len(c) >= size
    THEN [cache |-> DictSet(DictDel(c, FirstKey(c)), model_id, model),
          log |-> <<LogLine("info", "Evicted model", FirstKey(c))>>]
    ELSE [cache |-> DictSet(c, model_id, model), log |-> <<>>]

\* the end of the try block without the call of _add_to_cache
CacheAndReturnNotStored(c, size, model_id, model, io, log) ==
    [cache |-> c, raised |-> FALSE, ret |-> model, exc |-> NoException, io |-> io,
     log |-> log \o <<LogLine("info", "successfully loaded and cached", model_id)>>]

\* the end of load_model's try block (lines 68-72), after a deserializer
\* produced `model`: add to the cache, log, return the model
CacheAndReturn(c, size, model_id, model, io, log) ==
    LET a == AddToCache(c, size, model_id, model)
    IN  [cache |-> a.cache, raised |-> FALSE, ret |-> model, exc |-> NoException,
         io |-> io,
         log |-> log \o a.log
                 \o <<LogLine("info", "successfully loaded and cached", model_id)>>]

\* the except block remembering the failure in the dict (a negative entry)
LogAndReraisePoisoned(c, model_id, exc, io, log) ==
    [cache |-> DictSet(c, model_id, None), raised |-> TRUE, ret |-> None, exc |-> exc,
     io |-> io, log |-> log \o <<LogLine("error", "Failed to load model", model_id)>>]

\* `except Exception as e: logger.error(...); raise`: the exception reaches
\* the caller as it was raised, the dict is as it was
LogAndReraise(c, model_id, exc, io, log) ==
    [cache |-> c, raised |-> TRUE, ret |-> None, exc |-> exc, io |-> io,
     log |-> log \o <<LogLine("error", "Failed to load model", model_id)>>]

\* the miss path without the pickle fallback: a joblib failure is the failure
LoadFromDiskNoFallback(c, size, file_path, file, model_id) ==
    IF ~file.exists
    THEN LogAndReraise(c, model_id, FileNotFound(file_path), <<"exists">>, <<>>)
    ELSE IF file.jl
    THEN CacheAndReturn(c, size, model_id, file.obj, <<"exists", "joblib.load">>,
                        <<LogLine("info", "loaded with joblib", file_path)>>)
    ELSE LogAndReraise(c, model_id,
                       [type |-> "Exception", msg |-> <<JoblibErrorStr(file_path)>>],
                       <<"exists", "joblib.load">>, <<>>)

\* the miss path without the exists() test: a missing file fails in both
\* deserializers
LoadFromDiskNoExistsCheck(c, size, file_path, file, model_id) ==
    IF file.jl
    THEN CacheAndReturn(c, size, model_id, file.obj, <<"joblib.load">>,
                        <<LogLine("info", "loaded with joblib", file_path)>>)
    ELSE IF file.pk
    THEN CacheAndReturn(c, size, model_id, file.obj,
                        <<"joblib.load", "open", "pickle.load">>,
                        <<LogLine("warning", "Joblib load failed, trying pickle", file_path),
                          LogLine("info", "loaded with pickle", file_path)>>)
    ELSE LogAndReraise(c, model_id, BothFailed(file_path),
                       <<"joblib.load", "open">> \o
                           (IF file.exists THEN <<"pickle.load">> ELSE <<>>),
                       <<LogLine("warning", "Joblib load failed, trying pickle", file_path)>>)

\* load_model's miss path (lines 48-76), with `file` what is at file_path.
\* io lists the storage operations in the order they are made.
LoadFromDisk(c, size, file_path, file, model_id) ==
    IF ~file.exists
    THEN LogAndReraise(c, model_id, FileNotFound(file_path), <<"exists">>, <<>>)
    ELSE IF file.jl
    THEN CacheAndReturn(c, size, model_id, file.obj, <<"exists", "joblib.load">>,
                        <<LogLine("info", "loaded with joblib", file_path)>>)
    ELSE IF file.pk
    THEN CacheAndReturn(c, size, model_id, file.obj,
                        <<"exists", "joblib.load", "open", "pickle.load">>,
                        <<LogLine("warning", "Joblib load failed, trying pickle", file_path),
                          LogLine("info", "loaded with pickle", file_path)>>)
    ELSE LogAndReraise(c, model_id, BothFailed(file_path),
                       <<"exists", "joblib.load", "open", "pickle.load">>,
                       <<LogLine("warning", "Joblib load failed, trying pickle", file_path)>>)

\* load_model without the cache lookup
LoadModelAlwaysFromDisk(c, size, file_path, file, model_id) ==
    LoadFromDisk(c, size, file_path, file, model_id)

\* load_model whose hit moves the entry to the end of the dict, as an LRU
\* cache would (OrderedDict.move_to_end)
LoadModelMovesHitToEnd(c, size, file_path, file, model_id) ==
    IF InDict(c, model_id)
    THEN [cache |-> Append(DictDel(c, model_id),
                           [key |-> model_id, value |-> DictGet(c, model_id)]),
          raised |-> FALSE, ret |-> DictGet(c, model_id),
          exc |-> NoException, io |-> <<>>,
          log |-> <<LogLine("info", "loaded from cache", model_id)>>]
    ELSE LoadFromDisk(c, size, file_path, file, model_id)

\* load_model(file_path, model_id): a cached id is answered from the dict
LoadModel(c, size, file_path, file, model_id) ==
    IF InDict(c, model_id)
    THEN [cache |-> c, raised |-> FALSE, ret |-> DictGet(c, model_id),
          exc |-> NoException, io |-> <<>>,
          log |-> <<LogLine("info", "loaded from cache", model_id)>>]
    ELSE LoadFromDisk(c, size, file_path, file, model_id)

\* clear_cache dropping only the oldest entry
ClearCacheOldestOnly(c) ==
    [cache |-> IF c = <<>> THEN c ELSE DictDel(c, FirstKey(c)),
     log |-> <<LogLine("info", "Model cache cleared", None)>>]

\* clear_cache()
ClearCache(c) ==
    [cache |-> <<>>, log |-> <<LogLine("info", "Model cache cleared", None)>>]

\* remove_from_cache deleting the oldest key instead of model_id
RemoveFromCacheWrongKey(c, model_id) ==
    IF InDict(c, model_id)
    THEN [cache |-> DictDel(c, FirstKey(c)), raised |-> FALSE, exc |-> NoException,
          log |-> <<LogLine("info", "removed from cache", model_id)>>]
    ELSE [cache |-> c, raised |-> FALSE, exc |-> NoException, log |-> <<>>]

\* remove_from_cache without its membership test: `del` of an absent key
\* raises KeyError
RemoveFromCacheUnguarded(c, model_id) ==
    IF InDict(c, model_id)
    THEN [cache |-> DictDel(c, model_id), raised |-> FALSE, exc |-> NoException,
          log |-> <<LogLine("info", "removed from cache", model_id)>>]
    ELSE [cache |-> c, raised |-> TRUE,
          exc |-> [type |-> "KeyError", msg |-> <<[text |-> "", arg |-> model_id]>>],
          log |-> <<>>]

\* remove_from_cache(model_id)
RemoveFromCache(c, model_id) ==
    IF InDict(c, model_id)
    THEN [cache |-> DictDel(c, model_id), raised |-> FALSE, exc |-> NoException,
          log |-> <<LogLine("info", "removed from cache", model_id)>>]
    ELSE [cache |-> c, raised |-> FALSE, exc |-> NoException, log |-> <<>>]

\* is_model_cached(model_id)
IsModelCached(c, model_id) == InDict(c, model_id)

\* is_model_cached counting as an access: a cached id moves to the end of the dict
QueryCachedTouching(c, model_id) ==
    [cache |-> IF InDict(c, model_id)
               THEN DictSet(DictDel(c, model_id), model_id, DictGet(c, model_id))
               ELSE c,
     answer |-> IsModelCached(c, model_id)]

\* a call of is_model_cached(model_id): its answer and the dict it leaves
QueryCached(c, model_id) ==
    [cache |-> c, answer |-> IsModelCached(c, model_id)]

\* ---- observers -------------------------------------------------------------
\* the ids a call's log reports as evicted / removed
Reported(log, event) == {log[i].arg : i \in {j \in 1..Len(log) : log[j].event = event}}

\* the recency order with id moved to the most-recently-used end
Touch(r, id) == Append(SelectSeq(r, LAMBDA x : x # id), id)

\* the recency order without the ids in gone
Forget(r, gone) == SelectSeq(r, LAMBDA x : x \notin gone)

\* ---- concurrent callers ---------------------------------------------------
Threads == 1..NumThreads

\* a caller: pc is the source line of the statement it executes next ("idle":
\* between calls); op, model_id: the call it is in or has just left; model:
\* the deserialized object (after the return: the returned object);
\* oldest_key: _add_to_cache's local; storage: whether the call read the
\* artifact ("ok" / "failed") or not ("none"); exc, raised_at: the exception
\* the call ended with and the line that raised it; mixed: whether the call
\* ran alongside a call of another caller that was not a load_model of the
\* same identifier
IdleThread ==
    [pc |-> "idle", op |-> "none", model_id |-> None, model |-> None,
     oldest_key |-> None, storage |-> "none", exc |-> "None", raised_at |-> "none",
     mixed |-> FALSE]

\* the call returns `model`
Returns(th, model) == [th EXCEPT !.pc = "idle", !.model = model, !.oldest_key = None]

\* the call ends with exception exc raised at line
Raises(th, exc, line) ==
    [th EXCEPT !.pc = "idle", !.model = None, !.oldest_key = None,
               !.exc = exc, !.raised_at = line]

\* ---- the database and the HTTP layer -----------------------------------------
\* The endpoints are `async def` handlers without an `await` between their
\* query and their commit, so one event loop runs each of them to its end:
\* a request is one step.  current_user is the user get_current_user has
\* authenticated for the request.
MaxModels == 2      \* rows the "models" table can hold

Users == {"alice", "bob"}                     \* users.id of the registered users
Names == {"iris", "churn"}                    \* model names
Null == "null"                                \* None in a string-valued field
Statuses == {"active", "deprecated", "archived"}
ModelTypes == {"sklearn", "onnx"}             \* model_type values a client sends
ALLOWED_MODEL_TYPES == {"sklearn"}            \* the default of settings.ALLOWED_MODEL_TYPES
Inferences == {"ok", "raises"}                \* what model.predict(X) does with the input

Range(s) == {s[i] : i \in 1..Len(s)}

\* a detail string without an interpolated value
Detail(text) == <<[text |-> text, arg |-> None]>>

\* str(e) of an exception raised by the loader or by the model
Str(exc) == exc.msg

\* the exchange before any request.  endpoint, user, model_id: the request;
\* code, detail: status code and detail of the response; ids: the models the
\* response body shows, in its order; total: pagination.total_items; tasks:
\* the log_prediction_to_db calls handed to background_tasks.add_task;
\* cached: metadata.cached; loader: how the handler's load_model call ended
\* ("not called", "returned", or the type of the exception it raised);
\* bearer, x_api_key: the credentials of the request where the model keeps
\* them (the user an access token names, the number of the key presented);
\* user_id: the users.id an access token carries, email: the validated email
\* of the request body (the endpoints of the users table); status_filter,
\* page, per_page: the query parameters of list_models; version: the version
\* the body of a predict request asks for (None: any); raises_at: the store
\* operation that raises while rate_limit_dependency runs ("never": none)
NoResponse ==
    [endpoint |-> "none", user |-> Null, model_id |-> None, code |-> 0,
     detail |-> <<>>, ids |-> <<>>, total |-> 0, tasks |-> <<>>,
     cached |-> FALSE, loader |-> "not called", bearer |-> Null, x_api_key |-> None,
     user_id |-> None, email |-> Null, status_filter |-> Null, page |-> 0, per_page |-> 0,
     version |-> None, raises_at |-> "never"]

Request(endpoint, user, model_id) ==
    [NoResponse EXCEPT !.endpoint = endpoint, !.user = user, !.model_id = model_id]

\* raise HTTPException(status_code=code, detail=text)
HTTPError(req, code, text) == [req EXCEPT !.code = code, !.detail = Detail(text)]

\* db.query(Model).filter(Model.id == model_id): no row or one row
ModelById(table, model_id) == SelectSeq(table, LAMBDA r : r.id = model_id)

\* the table with the row of model_id replaced by row
PutModel(table, model_id, row) ==
    [i \in 1..Len(table) |-> IF table[i].id = model_id THEN row ELSE table[i]]

\* ---- app/api/v1/models.py ------------------------------------------------------
\* the user's rows of that name, .order_by(desc(Model.version)).first()
LatestModel(table, user, name) ==
    LET mine == {r \in Range(table) : r.user_id = user /\ r.name = name}
    IN IF mine = {} THEN <<>>
       ELSE <<CHOOSE r \in mine : \A s \in mine : s.version <= r.version>>

\* the version lookup without the user filter
NextVersionAnyUser(table, user, name) ==
    LET named == {r \in Range(table) : r.name = name}
    IN IF named = {} THEN 1
       ELSE (CHOOSE r \in named : \A s \in named : s.version <= r.version).version + 1

\* version = 1 if not latest_model else latest_model.version + 1
NextVersion(table, user, name) ==
    LET latest_model == LatestModel(table, user, name)
    IN IF latest_model = <<>> THEN 1 ELSE latest_model[1].version + 1

\* UniqueConstraint('user_id', 'name', 'version'): whether the table accepts row
UniqueUserModelVersion(table, row) ==
    \A r \in Range(table) :
        ~(r.user_id = row.user_id /\ r.name = row.name /\ r.version = row.version)

\* upload_model, with settings.ALLOWED_MODEL_TYPES = allowed: the uuid4 of the
\* new row is the next unused identifier; a commit the unique constraint
\* rejects ends the request with a 500
UploadModel(table, allowed, user, name, description, model_type, too_large) ==
    LET req == Request("upload_model", user, None)
        new_model == [id |-> Len(table) + 1, user_id |-> user, name |-> name,
                      description |-> description, model_type |-> model_type,
                      version |-> NextVersion(table, user, name), status |-> "active"]
    IN IF model_type \notin allowed
       THEN [models |-> table, resp |-> HTTPError(req, 400, "Model type must be one of")]
       ELSE IF too_large
       THEN [models |-> table,
             resp |-> HTTPError(req, 413, "File size exceeds maximum allowed size")]
       ELSE IF ~UniqueUserModelVersion(table, new_model)
       THEN [models |-> table, resp |-> HTTPError(req, 500, "Internal Server Error")]
       ELSE [models |-> Append(table, new_model),
             resp |-> [req EXCEPT !.model_id = new_model.id, !.code = 201,
                                  !.ids = <<new_model.id>>]]

\* the sequence s from its last element to its first
Reverse(s) == [i \in 1..Len(s) |-> s[Len(s) + 1 - i]]

\* .offset(skip).limit(per_page) of the rows s
Paginate(s, skip, per_page) ==
    [i \in 1..(IF Len(s) - skip < 0 THEN 0
               ELSE IF Len(s) - skip < per_page THEN Len(s) - skip
               ELSE per_page) |-> s[skip + i]]

\* list_models: the caller's rows, newest first, one page of them
ListModels(table, user, page, per_page, status_filter) ==
    LET query == SelectSeq(table, LAMBDA r :
                     /\ r.user_id = user
                     /\ (status_filter = Null \/ r.status = status_filter))
        shown == Paginate(Reverse(query), (page - 1) * per_page, per_page)
    IN [models |-> table,
        resp |-> [Request("list_models", user, None) EXCEPT
                     !.status_filter = status_filter, !.page = page,
                     !.per_page = per_page,
                     !.code = 200, !.total = Len(query),
                     !.ids = [i \in 1..Len(shown) |-> shown[i].id]]]

\* the lookup and the ownership test the four /{model_id} handlers start
\* with: <<>> when the request goes on, the error response otherwise
Guard(req, table, denied) ==
    LET model == ModelById(table, req.model_id)
    IN IF model = <<>> THEN <<HTTPError(req, 404, "Model not found")>>
       ELSE IF model[1].user_id # req.user THEN <<HTTPError(req, 403, denied)>>
       ELSE <<>>

\* get_model
GetModel(table, user, model_id) ==
    LET req == Request("get_model", user, model_id)
        stop == Guard(req, table, "Not authorized to access this model")
    IN [models |-> table,
        resp |-> IF stop # <<>> THEN stop[1]
                 ELSE [req EXCEPT !.code = 200, !.ids = <<model_id>>]]

\* update_model: description and status are set when the body carries them
UpdateModel(table, user, model_id, description, status) ==
    LET req == Request("update_model", user, model_id)
        stop == Guard(req, table, "Not authorized to modify this model")
        model == ModelById(table, model_id)[1]
        updated == [model EXCEPT
                       !.description = IF description # Null THEN description ELSE @,
                       !.status = IF status # Null THEN status ELSE @]
    IN IF stop # <<>> THEN [models |-> table, resp |-> stop[1]]
       ELSE [models |-> PutModel(table, model_id, updated),
             resp |-> [req EXCEPT !.code = 200, !.ids = <<model_id>>]]

\* delete_model without the ownership test
DeleteModelAnyUser(table, user, model_id) ==
    LET req == Request("delete_model", user, model_id)
        model == ModelById(table, model_id)
    IN IF model = <<>> THEN [models |-> table, resp |-> HTTPError(req, 404, "Model not found")]
       ELSE [models |-> PutModel(table, model_id, [model[1] EXCEPT !.status = "archived"]),
             resp |-> [req EXCEPT !.code = 204]]

\* delete_model with db.delete(model) in place of the status change
DeleteModelHard(table, user, model_id) ==
    LET req == Request("delete_model", user, model_id)
        stop == Guard(req, table, "Not authorized to delete this model")
    IN IF stop # <<>> THEN [models |-> table, resp |-> stop[1]]
       ELSE [models |-> SelectSeq(table, LAMBDA r : r.id # model_id),
             resp |-> [req EXCEPT !.code = 204]]

\* delete_model: a soft delete
DeleteModel(table, user, model_id) ==
    LET req == Request("delete_model", user, model_id)
        stop == Guard(req, table, "Not authorized to delete this model")
        model == ModelById(table, model_id)[1]
    IN IF stop # <<>> THEN [models |-> table, resp |-> stop[1]]
       ELSE [models |-> PutModel(table, model_id, [model EXCEPT !.status = "archived"]),
             resp |-> [req EXCEPT !.code = 204]]

\* get_model_analytics: the statistics are read from the predictions table
\* and are not part of the exchange kept here
GetModelAnalytics(table, user, model_id) ==
    LET req == Request("get_model_analytics", user, model_id)
        stop == Guard(req, table, "Not authorized to access this model's analytics")
    IN [models |-> table,
        resp |-> IF stop # <<>> THEN stop[1]
                 ELSE [req EXCEPT !.code = 200, !.ids = <<model_id>>]]

\* ---- app/api/v1/predictions.py -------------------------------------------------
\* background_tasks.add_task(log_prediction_to_db, ..., status=..., error_message=...)
LogPrediction(status, error_message) == [status |-> status, error_message |-> error_message]

\* the error model.predict raises on an input it cannot take
InferenceError == [type |-> "ValueError", msg |-> <<[text |-> "predict_error", arg |-> None]>>]

\* the HTTPException the handler raises inside its own try block for a
\* model_type it does not serve; str() of it is "501: <detail>"
NotImplemented(model_type) ==
    [type |-> "HTTPException",
     msg |-> <<[text |-> "501: Predictions not yet implemented for", arg |-> model_type]>>]

\* the except clauses with the FileNotFoundError clause missing
PredictExceptGenericOnly(req, exc) ==
    [req EXCEPT !.code = 500, !.detail = Detail("Prediction failed: ") \o Str(exc),
                !.tasks = <<LogPrediction("failed", Str(exc))>>]

\* the except clauses of predict: FileNotFoundError first, then Exception
PredictExcept(req, exc) ==
    IF exc.type = "FileNotFoundError"
    THEN HTTPError(req, 404, "Model file not found on disk")
    ELSE [req EXCEPT !.code = 500, !.detail = Detail("Prediction failed: ") \o Str(exc),
                     !.tasks = <<LogPrediction("failed", Str(exc))>>]

\* predict without its test of the status
PredictUngated(c, size, table, user, model_id, version, file, inference) ==
    LET req == [Request("predict", user, model_id) EXCEPT !.version = version]
        model_record == SelectSeq(table, LAMBDA r :
                            r.id = model_id /\ (version = None \/ r.version = version))
    IN IF model_record = <<>>
       THEN [cache |-> c,
             resp |-> HTTPError(req, 404, "Model not found or version not available")]
       ELSE
         LET r == LoadModel(c, size, FilePath(model_record[1].id), file, model_record[1].id)
             called == [req EXCEPT !.loader = IF r.raised THEN r.exc.type ELSE "returned"]
         IN IF r.raised
            THEN [cache |-> r.cache, resp |-> PredictExcept(called, r.exc)]
            ELSE IF model_record[1].model_type # "sklearn"
            THEN [cache |-> r.cache,
                  resp |-> PredictExcept(called, NotImplemented(model_record[1].model_type))]
            ELSE IF inference = "raises"
            THEN [cache |-> r.cache, resp |-> PredictExcept(called, InferenceError)]
            ELSE [cache |-> r.cache,
                  resp |-> [called EXCEPT
                               !.code = 200, !.ids = <<model_record[1].id>>,
                               !.tasks = <<LogPrediction("success", <<>>)>>,
                               !.cached = IsModelCached(r.cache, model_record[1].id)]]

\* predict reporting whether the model was cached before its load_model call
PredictCachedBeforeLoad(c, size, table, user, model_id, version, file, inference) ==
    LET req == [Request("predict", user, model_id) EXCEPT !.version = version]
        model_record == SelectSeq(table, LAMBDA r :
                            r.id = model_id /\ (version = None \/ r.version = version))
    IN IF model_record = <<>>
       THEN [cache |-> c,
             resp |-> HTTPError(req, 404, "Model not found or version not available")]
       ELSE IF model_record[1].status \notin {"active", "deprecated"}
       THEN [cache |-> c,
             resp |-> HTTPError(req, 400, "Model is not available for predictions")]
       ELSE
         LET r == LoadModel(c, size, FilePath(model_record[1].id), file, model_record[1].id)
             called == [req EXCEPT !.loader = IF r.raised THEN r.exc.type ELSE "returned"]
         IN IF r.raised
            THEN [cache |-> r.cache, resp |-> PredictExcept(called, r.exc)]
            ELSE IF model_record[1].model_type # "sklearn"
            THEN [cache |-> r.cache,
                  resp |-> PredictExcept(called, NotImplemented(model_record[1].model_type))]
            ELSE IF inference = "raises"
            THEN [cache |-> r.cache, resp |-> PredictExcept(called, InferenceError)]
            ELSE [cache |-> r.cache,
                  resp |-> [called EXCEPT
                               !.code = 200, !.ids = <<model_record[1].id>>,
                               !.tasks = <<LogPrediction("success", <<>>)>>,
                               !.cached = IsModelCached(c, model_record[1].id)]]

\* predict(model_id, prediction_input): version is the optional version of
\* the body (None: any), file what load_model finds at the record's
\* file_path, inference what the model does with the input
Predict(c, size, table, user, model_id, version, file, inference) ==
    LET req == [Request("predict", user, model_id) EXCEPT !.version = version]
        model_record == SelectSeq(table, LAMBDA r :
                            r.id = model_id /\ (version = None \/ r.version = version))
    IN IF model_record = <<>>
       THEN [cache |-> c,
             resp |-> HTTPError(req, 404, "Model not found or version not available")]
       ELSE IF model_record[1].status \notin {"active", "deprecated"}
       THEN [cache |-> c,
             resp |-> HTTPError(req, 400, "Model is not available for predictions")]
       ELSE
         LET r == LoadModel(c, size, FilePath(model_record[1].id), file, model_record[1].id)
             called == [req EXCEPT !.loader = IF r.raised THEN r.exc.type ELSE "returned"]
         IN IF r.raised
            THEN [cache |-> r.cache, resp |-> PredictExcept(called, r.exc)]
            ELSE IF model_record[1].model_type # "sklearn"
            THEN [cache |-> r.cache,
                  resp |-> PredictExcept(called, NotImplemented(model_record[1].model_type))]
            ELSE IF inference = "raises"
            THEN [cache |-> r.cache, resp |-> PredictExcept(called, InferenceError)]
            ELSE [cache |-> r.cache,
                  resp |-> [called EXCEPT
                               !.code = 200, !.ids = <<model_record[1].id>>,
                               !.tasks = <<LogPrediction("success", <<>>)>>,
                               !.cached = IsModelCached(r.cache, model_record[1].id)]]

\* ---- the state machine ----------------------------------------------------
NoCall ==
    [op |-> "init", model_id |-> None, file_path |-> None, file |-> MissingFile,
     pre |-> <<>>, raised |-> FALSE, ret |-> None, exc |-> NoException,
     io |-> <<>>, log |-> <<>>, after |-> "other", answer |-> FALSE]

\* how a load_model of model_id follows the call recorded in l: a "retry" comes
\* right after a load_model of the same id that raised, a "reload" right after
\* a clear_cache that dropped the id
Follows(l, model_id) ==
    IF l.op = "load_model" /\ l.raised /\ l.model_id = model_id THEN "retry"
    ELSE IF l.op = "clear_cache" /\ model_id \in Keys(l.pre) THEN "reload"
    ELSE "other"

\* the application started with settings.ALLOWED_MODEL_TYPES = allowed:
\* ModelLoader(cache_size), an empty cache of a positive capacity (default 5),
\* and empty tables
Started(allowed) ==
    /\ cache_size \in 1..MaxCacheSize
    /\ cache = <<>>
    /\ last = NoCall
    /\ resident = {}
    /\ recency = <<>>
    /\ threads = [t \in Threads |-> IdleThread]
    /\ models = <<>>
    /\ api_keys = <<>>
    /\ issued = 0
    /\ now = 1
    /\ resp = NoResponse
    /\ users = <<>>
    /\ allowed_model_types = allowed
    /\ rate_limiter = "unset"
    /\ redis = [zset |-> {}, expires |-> None]
    /\ checks = <<>>

\* the application with the default settings
Init == Started(ALLOWED_MODEL_TYPES)

\* a caller runs load_model(model_record.file_path, model_id) to its end
Load(file, model_id) ==
    LET r == LoadModel(cache, cache_size, FilePath(model_id), file, model_id)
    IN  /\ cache' = r.cache
        /\ last' = [op |-> "load_model", model_id |-> model_id,
                    file_path |-> FilePath(model_id), file |-> file, pre |-> cache,
                    raised |-> r.raised, ret |-> r.ret, exc |-> r.exc,
                    io |-> r.io, log |-> r.log, after |-> Follows(last, model_id),
                    answer |-> FALSE]
        /\ resident' = IF r.raised THEN resident
                       ELSE (resident \ Reported(r.log, "Evicted model")) \cup {model_id}
        /\ UNCHANGED cache_size

\* a caller runs remove_from_cache(model_id)
Remove(model_id) ==
    LET r == RemoveFromCache(cache, model_id)
    IN  /\ cache' = r.cache
        /\ last' = [NoCall EXCEPT !.op = "remove_from_cache", !.model_id = model_id,
                                  !.pre = cache, !.raised = r.raised, !.exc = r.exc,
                                  !.log = r.log]
        /\ resident' = resident \ Reported(r.log, "removed from cache")
        /\ UNCHANGED cache_size

\* a caller runs clear_cache()
Clear ==
    LET r == ClearCache(cache)
    IN  /\ cache' = r.cache
        /\ last' = [NoCall EXCEPT !.op = "clear_cache", !.pre = cache, !.log = r.log]
        /\ resident' = {}
        /\ UNCHANGED cache_size

\* a caller runs is_model_cached(model_id)
Query(model_id) ==
    LET r == QueryCached(cache, model_id)
    IN  /\ cache' = r.cache
        /\ last' = [NoCall EXCEPT !.op = "is_model_cached", !.model_id = model_id,
                                  !.pre = cache, !.answer = r.answer]
        /\ UNCHANGED <<cache_size, resident>>

\* the recency order after the call recorded in l: a hit or a successful load
\* is an access of its id; evicted, removed and cleared ids leave the order
Accessed(r, l) ==
    IF l.op = "load_model"
    THEN IF l.raised THEN r
         ELSE Touch(Forget(r, Reported(l.log, "Evicted model")), l.model_id)
    ELSE IF l.op = "remove_from_cache"
    THEN Forget(r, Reported(l.log, "removed from cache"))
    ELSE IF l.op = "is_model_cached" THEN r
    ELSE <<>>

Next ==
    \/ \E f \in FileStates, m \in ModelIds : Load(f, m) /\ UNCHANGED <<recency, elsewhere>>
    \/ \E m \in ModelIds : Remove(m) /\ UNCHANGED <<recency, elsewhere>>
    \/ Clear /\ UNCHANGED <<recency, elsewhere>>
    \/ \E m \in ModelIds : Query(m) /\ UNCHANGED <<recency, elsewhere>>

Spec == Init /\ [][Next]_vars

NextLRU ==
    \/ \E f \in FileStates, m \in ModelIds : Load(f, m) /\ recency' = Accessed(recency, last') /\ UNCHANGED elsewhere
    \/ \E m \in ModelIds : Remove(m) /\ recency' = Accessed(recency, last') /\ UNCHANGED elsewhere
    \/ Clear /\ recency' = Accessed(recency, last') /\ UNCHANGED elsewhere
    \/ \E m \in ModelIds : Query(m) /\ recency' = Accessed(recency, last') /\ UNCHANGED elsewhere

SpecLRU == Init /\ [][NextLRU]_vars

\* ---- the loader under concurrent callers ------------------------------------
\* thread t goes on as th, the dict becomes c
Step(t, th, c) ==
    /\ threads' = [threads EXCEPT ![t] = th]
    /\ cache' = c
    /\ UNCHANGED <<cache_size, last, resident, recency, http>>

\* whether a running caller th is in something else than load_model(model_id)
OtherCall(th, op, model_id) ==
    /\ th.pc # "idle"
    /\ ~(op = "load_model" /\ th.op = "load_model" /\ th.model_id = model_id)

\* an idle caller t enters op(model_id) at the line pc; the callers it joins
\* and t itself note whether they now run alongside another kind of call
Enter(t, op, model_id, pc) ==
    /\ threads[t].pc = "idle"
    /\ threads' =
           [u \in Threads |->
               IF u = t
               THEN [IdleThread EXCEPT
                        !.pc = pc, !.op = op, !.model_id = model_id,
                        !.mixed = \E v \in Threads \ {t} :
                                      OtherCall(threads[v], op, model_id)]
               ELSE IF OtherCall(threads[u], op, model_id)
               THEN [threads[u] EXCEPT !.mixed = TRUE]
               ELSE threads[u]]
    /\ UNCHANGED <<cache, cache_size, last, resident, recency, http>>

\* an idle caller enters load_model(file_path, model_id), at line 44
CallLoad(t, model_id) == Enter(t, "load_model", model_id, "l44")

\* an idle caller enters remove_from_cache(model_id), at line 95
CallRemove(t, model_id) == Enter(t, "remove_from_cache", model_id, "l95")

\* an idle caller enters clear_cache(), at line 90
CallClear(t) == Enter(t, "clear_cache", None, "l90")

\* line 44: if model_id in self._cache
L44(t) ==
    /\ threads[t].pc = "l44"
    /\ Step(t, [threads[t] EXCEPT !.pc = IF InDict(cache, threads[t].model_id)
                                        THEN "l46" ELSE "l50"], cache)

\* line 46: return self._cache[model_id] (outside the try block)
L46(t) ==
    /\ threads[t].pc = "l46"
    /\ Step(t, IF InDict(cache, threads[t].model_id)
               THEN Returns(threads[t], DictGet(cache, threads[t].model_id))
               ELSE Raises(threads[t], "KeyError", "l46"), cache)

\* lines 50-53: the exists() test; a missing file raises FileNotFoundError
L50(t, exists) ==
    /\ threads[t].pc = "l50"
    /\ Step(t, IF exists
               THEN [threads[t] EXCEPT !.pc = "l57"]
               ELSE Raises([threads[t] EXCEPT !.storage = "failed"],
                           "FileNotFoundError", "l53"), cache)

\* lines 56-66: joblib.load, then pickle.load; both failing raises Exception
L57(t, file) ==
    /\ threads[t].pc = "l57"
    /\ file.exists
    /\ Step(t, IF file.jl \/ file.pk
               THEN [threads[t] EXCEPT !.pc = "l81", !.model = file.obj, !.storage = "ok"]
               ELSE Raises([threads[t] EXCEPT !.storage = "failed"], "Exception", "l66"),
            cache)

\* line 81: if len(self._cache) >= self.cache_size
L81(t) ==
    /\ threads[t].pc = "l81"
    /\ Step(t, [threads[t] EXCEPT !.pc = IF Len(cache) >= cache_size
                                        THEN "l82" ELSE "l86"], cache)

\* line 82: oldest_key = next(iter(self._cache)); StopIteration on an empty dict
L82(t) ==
    /\ threads[t].pc = "l82"
    /\ Step(t, IF cache = <<>>
               THEN Raises(threads[t], "StopIteration", "l82")
               ELSE [threads[t] EXCEPT !.pc = "l83", !.oldest_key = FirstKey(cache)],
            cache)

\* line 83: del self._cache[oldest_key]; KeyError if the key is gone
L83(t) ==
    /\ threads[t].pc = "l83"
    /\ IF InDict(cache, threads[t].oldest_key)
       THEN Step(t, [threads[t] EXCEPT !.pc = "l86"],
                 DictDel(cache, threads[t].oldest_key))
       ELSE Step(t, Raises(threads[t], "KeyError", "l83"), cache)

\* lines 86 and 72: self._cache[model_id] = model; return model
L86(t) ==
    /\ threads[t].pc = "l86"
    /\ Step(t, Returns(threads[t], threads[t].model),
            DictSet(cache, threads[t].model_id, threads[t].model))

\* line 90: self._cache.clear()
L90(t) ==
    /\ threads[t].pc = "l90"
    /\ Step(t, Returns(threads[t], None), <<>>)

\* line 95: if model_id in self._cache
L95(t) ==
    /\ threads[t].pc = "l95"
    /\ Step(t, IF InDict(cache, threads[t].model_id)
               THEN [threads[t] EXCEPT !.pc = "l96"]
               ELSE Returns(threads[t], None), cache)

\* line 96: del self._cache[model_id]; KeyError if the key is gone
L96(t) ==
    /\ threads[t].pc = "l96"
    /\ IF InDict(cache, threads[t].model_id)
       THEN Step(t, Returns(threads[t], None), DictDel(cache, threads[t].model_id))
       ELSE Step(t, Raises(threads[t], "KeyError", "l96"), cache)

\* concurrent callers of load_model alone
NextLoads ==
    \/ \E t \in Threads, m \in ModelIds : CallLoad(t, m)
    \/ \E t \in Threads : L44(t)
    \/ \E t \in Threads : L46(t)
    \/ \E t \in Threads, exists \in BOOLEAN : L50(t, exists)
    \/ \E t \in Threads, f \in FileStates : L57(t, f)
    \/ \E t \in Threads : L81(t)
    \/ \E t \in Threads : L82(t)
    \/ \E t \in Threads : L83(t)
    \/ \E t \in Threads : L86(t)

SpecLoads == Init /\ [][NextLoads]_vars

\* concurrent callers of load_model, remove_from_cache and clear_cache
NextConc ==
    \/ \E t \in Threads, m \in ModelIds : CallLoad(t, m)
    \/ \E t \in Threads, m \in ModelIds : CallRemove(t, m)
    \/ \E t \in Threads : CallClear(t)
    \/ \E t \in Threads : L44(t)
    \/ \E t \in Threads : L46(t)
    \/ \E t \in Threads, exists \in BOOLEAN : L50(t, exists)
    \/ \E t \in Threads, f \in FileStates : L57(t, f)
    \/ \E t \in Threads : L81(t)
    \/ \E t \in Threads : L82(t)
    \/ \E t \in Threads : L83(t)
    \/ \E t \in Threads : L86(t)
    \/ \E t \in Threads : L90(t)
    \/ \E t \in Threads : L95(t)
    \/ \E t \in Threads : L96(t)

SpecConc == Init /\ [][NextConc]_vars

\* ---- the HTTP endpoints as a state machine ---------------------------------
\* identifiers a request can name: those of the rows and, while the table is
\* not full, identifiers no row has
RowIds == 1..MaxModels

DefaultPerPage == 20    \* per_page: int = 20

\* POST /models/upload
Upload(user, name, description, model_type, too_large) ==
    LET r == UploadModel(models, allowed_model_types, user, name, description, model_type,
                         too_large)
    IN /\ Len(models) < MaxModels
       /\ models' = r.models
       /\ resp' = r.resp

\* GET /models
List(user, page, per_page, status_filter) ==
    LET r == ListModels(models, user, page, per_page, status_filter)
    IN models' = r.models /\ resp' = r.resp

\* GET /models/{model_id}
Get(user, model_id) ==
    LET r == GetModel(models, user, model_id)
    IN models' = r.models /\ resp' = r.resp

\* PATCH /models/{model_id}
Update(user, model_id, description, status) ==
    LET r == UpdateModel(models, user, model_id, description, status)
    IN models' = r.models /\ resp' = r.resp

\* DELETE /models/{model_id}
Delete(user, model_id) ==
    LET r == DeleteModel(models, user, model_id)
    IN models' = r.models /\ resp' = r.resp

\* GET /models/{model_id}/analytics
Analytics(user, model_id) ==
    LET r == GetModelAnalytics(models, user, model_id)
    IN models' = r.models /\ resp' = r.resp

\* POST /predict/{model_id}, served by the one model_loader
PredictCall(user, model_id, version, file, inference) ==
    LET r == Predict(cache, cache_size, models, user, model_id, version, file, inference)
    IN /\ cache' = r.cache
       /\ resp' = r.resp
       /\ UNCHANGED models

\* what the model endpoints leave alone
beside_models == <<limiter, allowed_model_types, cache_size, cache, last, resident, recency, threads, keys, users>>

\* the model management endpoints.  The requests carry no description: it is
\* free text that no handler reads.
NextModels ==
    \/ \E u \in Users, ty \in ModelTypes, big \in BOOLEAN :
           Upload(u, "iris", Null, ty, big) /\ UNCHANGED beside_models
    \/ \E u \in Users, page \in 1..2, per_page \in {1, DefaultPerPage},
          f \in Statuses \cup {Null} :
           List(u, page, per_page, f) /\ UNCHANGED beside_models
    \/ \E u \in Users, m \in RowIds : Get(u, m) /\ UNCHANGED beside_models
    \/ \E u \in Users, m \in RowIds, st \in Statuses \cup {Null} :
           Update(u, m, Null, st) /\ UNCHANGED beside_models
    \/ \E u \in Users, m \in RowIds : Delete(u, m) /\ UNCHANGED beside_models
    \/ \E u \in Users, m \in RowIds : Analytics(u, m) /\ UNCHANGED beside_models

SpecModels == Init /\ [][NextModels]_vars

\* uploads and soft deletes of models of several names by several users
NextVersions ==
    \/ \E u \in Users, n \in Names :
           Upload(u, n, Null, "sklearn", FALSE) /\ UNCHANGED beside_models
    \/ \E u \in Users, m \in RowIds : Delete(u, m) /\ UNCHANGED beside_models

SpecVersions == Init /\ [][NextVersions]_vars

\* what the prediction service leaves alone
beside_predict == <<limiter, allowed_model_types, cache_size, last, resident, recency, threads, keys, users>>

\* what a predict request meets: the artifact at the record's file_path and
\* what model.predict does with the input.  Which object a readable artifact
\* holds makes no difference to the endpoint, and neither does the inference
\* when the artifact cannot be read.
PredictInputs ==
    {[file |-> f, inference |-> "ok"] : f \in {g \in FileStates : g.obj \in {None, 1}}}
    \cup {[file |-> [exists |-> TRUE, jl |-> TRUE, pk |-> TRUE, obj |-> 1],
           inference |-> "raises"]}

\* the prediction endpoint, with the uploads and status changes that decide
\* which models it can serve: alice uploads versions of one model, alice and
\* bob both send requests
NextPredict ==
    \/ Upload("alice", "iris", Null, "sklearn", FALSE) /\ UNCHANGED <<cache, beside_predict>>
    \/ \E u \in Users, m \in RowIds, st \in Statuses :
           Update(u, m, Null, st) /\ UNCHANGED <<cache, beside_predict>>
    \/ \E u \in Users, m \in RowIds : Delete(u, m) /\ UNCHANGED <<cache, beside_predict>>
    \/ \E u \in Users, m \in RowIds, v \in {None, 1}, i \in PredictInputs :
           PredictCall(u, m, v, i.file, i.inference) /\ UNCHANGED beside_predict

SpecPredict == Init /\ [][NextPredict]_vars

\* the prediction endpoint of a deployment whose environment allows every
\* model type of ModelTypes (ALLOWED_MODEL_TYPES=sklearn,onnx)
NextTypes ==
    \/ \E ty \in ModelTypes :
           Upload("alice", "iris", Null, ty, FALSE) /\ UNCHANGED <<cache, beside_predict>>
    \/ \E m \in RowIds, st \in Statuses :
           Update("alice", m, Null, st) /\ UNCHANGED <<cache, beside_predict>>
    \/ \E m \in RowIds, i \in PredictInputs :
           PredictCall("alice", m, None, i.file, i.inference) /\ UNCHANGED beside_predict

SpecTypes == Started(ModelTypes) /\ [][NextTypes]_vars

\* ---- API keys: app/api/v1/api_keys.py, app/api/dependencies.py, app/main.py ---
MaxKeys == 2        \* API keys generate_api_key produces
MaxTime == 3        \* the clock runs over the days 1..MaxTime

\* the n-th key generate_api_key returns: secrets.token_urlsafe(32) gives a
\* string it has not given before.  A client can present any of them in the
\* X-API-Key header, issued or not.
GenerateApiKey(n) == n
KeyNumbers == 1..MaxKeys

\* hash_api_key: sha256 of the key, taken as free of collisions
HashApiKey(api_key) == [sha256 |-> api_key]

\* the credentials of a request: the user a valid access token names in the
\* Authorization header (Null: no header) and the key in X-API-Key (None:
\* no header).  Every user of Users is registered and active: no endpoint
\* clears users.is_active.
Credentials ==
    {[bearer |-> b, x_api_key |-> k] : b \in Users \cup {Null}, k \in KeyNumbers \cup {None}}

\* APIKeyUpdate.is_active, an Optional[bool]: <<>> is None
OptionalBool == {<<>>, <<TRUE>>, <<FALSE>>}

\* the routers main.py includes in the application
IncludedRouters == {"auth", "models", "predictions", "users"}

\* db.query(APIKey).filter(APIKey.id == key_id): no row or one row
KeyById(table, key_id) == SelectSeq(table, LAMBDA r : r.id = key_id)

\* the table with the row of key_id replaced by row
PutKey(table, key_id, row) ==
    [i \in 1..Len(table) |-> IF table[i].id = key_id THEN row ELSE table[i]]

\* get_user_from_api_key without the is_active filter of its query
GetUserFromApiKeyInactiveToo(table, x_api_key, t) ==
    LET api_key_record == SelectSeq(table, LAMBDA r : r.key_hash = HashApiKey(x_api_key))
    IN IF x_api_key = None THEN [user |-> Null, api_keys |-> table]
       ELSE IF api_key_record = <<>> THEN [user |-> Null, api_keys |-> table]
       ELSE IF api_key_record[1].expires_at # None /\ api_key_record[1].expires_at < t
       THEN [user |-> Null, api_keys |-> table]
       ELSE [user |-> api_key_record[1].user_id,
             api_keys |-> PutKey(table, api_key_record[1].id,
                                 [api_key_record[1] EXCEPT !.last_used_at = t])]

\* get_user_from_api_key at time t: the user (Null: None) and the table,
\* in which the row of an accepted key has its last_used_at set
GetUserFromApiKey(table, x_api_key, t) ==
    LET api_key_record ==
            SelectSeq(table, LAMBDA r : r.key_hash = HashApiKey(x_api_key) /\ r.is_active)
    IN IF x_api_key = None THEN [user |-> Null, api_keys |-> table]
       ELSE IF api_key_record = <<>> THEN [user |-> Null, api_keys |-> table]
       ELSE IF api_key_record[1].expires_at # None /\ api_key_record[1].expires_at < t
       THEN [user |-> Null, api_keys |-> table]
       ELSE [user |-> api_key_record[1].user_id,
             api_keys |-> PutKey(table, api_key_record[1].id,
                                 [api_key_record[1] EXCEPT !.last_used_at = t])]

\* get_current_user: the API key first, the access token only without a key
GetCurrentUser(table, bearer, x_api_key, t) ==
    LET by_key == GetUserFromApiKey(table, x_api_key, t)
    IN IF x_api_key # None
       THEN IF by_key.user # Null
            THEN [user |-> by_key.user, code |-> 200, detail |-> "",
                  api_keys |-> by_key.api_keys]
            ELSE [user |-> Null, code |-> 401, detail |-> "Invalid or expired API key",
                  api_keys |-> table]
       ELSE IF bearer = Null
       THEN [user |-> Null, code |-> 401,
             detail |-> "Not authenticated. Provide either Bearer token or X-API-Key header.",
             api_keys |-> table]
       ELSE [user |-> bearer, code |-> 200, detail |-> "", api_keys |-> table]

\* create_api_key for current_user at time t, n keys generated so far; the
\* new row's uuid4 is numbered like its key
CreateApiKey(req, table, n, user, expires_days, t) ==
    LET db_api_key ==
            [id |-> n + 1, user_id |-> user,
             key_hash |-> HashApiKey(GenerateApiKey(n + 1)), is_active |-> TRUE,
             expires_at |-> IF expires_days # None THEN t + expires_days ELSE None,
             last_used_at |-> None]
    IN [api_keys |-> Append(table, db_api_key), issued |-> n + 1,
        resp |-> [req EXCEPT !.code = 201, !.ids = <<db_api_key.id>>]]

\* list_api_keys
ListApiKeys(req, table, n, user) ==
    LET mine == SelectSeq(table, LAMBDA r : r.user_id = user)
    IN [api_keys |-> table, issued |-> n,
        resp |-> [req EXCEPT !.code = 200, !.ids = [i \in 1..Len(mine) |-> mine[i].id]]]

\* the lookup and the ownership test of the three /{key_id} handlers
KeyGuard(req, table, user, denied) ==
    LET api_key == KeyById(table, req.model_id)
    IN IF api_key = <<>> THEN <<HTTPError(req, 404, "API key not found")>>
       ELSE IF api_key[1].user_id # user THEN <<HTTPError(req, 403, denied)>>
       ELSE <<>>

\* get_api_key
GetApiKey(req, table, n, user) ==
    LET stop == KeyGuard(req, table, user, "Not authorized to access this API key")
    IN [api_keys |-> table, issued |-> n,
        resp |-> IF stop # <<>> THEN stop[1]
                 ELSE [req EXCEPT !.code = 200, !.ids = <<req.model_id>>]]

\* update_api_key: is_active is set when the body carries it (the name of a
\* key is not kept in the model)
UpdateApiKey(req, table, n, user, is_active) ==
    LET stop == KeyGuard(req, table, user, "Not authorized to modify this API key")
        api_key == KeyById(table, req.model_id)[1]
    IN IF stop # <<>> THEN [api_keys |-> table, issued |-> n, resp |-> stop[1]]
       ELSE [api_keys |-> PutKey(table, req.model_id,
                                 IF is_active # <<>>
                                 THEN [api_key EXCEPT !.is_active = is_active[1]]
                                 ELSE api_key),
             issued |-> n,
             resp |-> [req EXCEPT !.code = 200, !.ids = <<req.model_id>>]]

\* revoke_api_key: db.delete
RevokeApiKey(req, table, n, user) ==
    LET stop == KeyGuard(req, table, user, "Not authorized to delete this API key")
    IN IF stop # <<>> THEN [api_keys |-> table, issued |-> n, resp |-> stop[1]]
       ELSE [api_keys |-> SelectSeq(table, LAMBDA r : r.id # req.model_id), issued |-> n,
             resp |-> [req EXCEPT !.code = 204]]

\* a request with its credentials on record; id is the identifier in its path
Received(endpoint, cred, id) ==
    [Request(endpoint, Null, id) EXCEPT !.bearer = cred.bearer, !.x_api_key = cred.x_api_key]

\* get_current_user for the credentials cred, now
Authenticate(cred) == GetCurrentUser(api_keys, cred.bearer, cred.x_api_key, now)

\* the request req, as the handler sees it once get_current_user has returned
As(req, auth) == [req EXCEPT !.user = auth.user]

\* the answer to a request req to an endpoint of api_keys.py in an
\* application that includes the routers `routers`: 404 Not Found when no
\* route matches; otherwise the error of get_current_user (auth), or the
\* result r of the handler for the user it returned
ApiKeysRequest(routers, req, auth, r) ==
    /\ IF "api_keys" \notin routers
       THEN resp' = HTTPError(req, 404, "Not Found") /\ UNCHANGED <<api_keys, issued>>
       ELSE IF auth.user = Null
       THEN /\ resp' = HTTPError(req, auth.code, auth.detail)
            /\ api_keys' = auth.api_keys
            /\ UNCHANGED issued
       ELSE resp' = r.resp /\ api_keys' = r.api_keys /\ issued' = r.issued
    /\ UNCHANGED now

\* POST /api-keys
CreateKey(routers, cred, expires_days) ==
    LET req == Received("create_api_key", cred, None)
        auth == Authenticate(cred)
    IN /\ issued < MaxKeys
       /\ ApiKeysRequest(routers, req, auth,
                         CreateApiKey(As(req, auth), auth.api_keys, issued, auth.user,
                                      expires_days, now))

\* GET /api-keys
ListKeys(routers, cred) ==
    LET req == Received("list_api_keys", cred, None)
        auth == Authenticate(cred)
    IN ApiKeysRequest(routers, req, auth,
                      ListApiKeys(As(req, auth), auth.api_keys, issued, auth.user))

\* GET /api-keys/{key_id}
GetKey(routers, cred, key_id) ==
    LET req == Received("get_api_key", cred, key_id)
        auth == Authenticate(cred)
    IN ApiKeysRequest(routers, req, auth,
                      GetApiKey(As(req, auth), auth.api_keys, issued, auth.user))

\* PATCH /api-keys/{key_id}
UpdateKey(routers, cred, key_id, is_active) ==
    LET req == Received("update_api_key", cred, key_id)
        auth == Authenticate(cred)
    IN ApiKeysRequest(routers, req, auth,
                      UpdateApiKey(As(req, auth), auth.api_keys, issued, auth.user, is_active))

\* DELETE /api-keys/{key_id}
RevokeKey(routers, cred, key_id) ==
    LET req == Received("revoke_api_key", cred, key_id)
        auth == Authenticate(cred)
    IN ApiKeysRequest(routers, req, auth,
                      RevokeApiKey(As(req, auth), auth.api_keys, issued, auth.user))

\* GET /auth/me.  Its dependency is a lambda that returns the function
\* get_current_user without calling it, so current_user is that function
\* whatever the credentials are; UserResponse.model_validate of it raises,
\* and the global exception handler of main.py answers 500.
AuthMe(cred) ==
    /\ resp' = HTTPError(Received("get_current_user_info", cred, None), 500,
                         "An unexpected error occurred")
    /\ UNCHANGED keys

\* GET /users/me, behind Depends(get_current_user)
UsersMe(cred) ==
    LET req == Received("get_current_user_profile", cred, None)
        auth == Authenticate(cred)
    IN /\ resp' = IF auth.user = Null THEN HTTPError(req, auth.code, auth.detail)
                  ELSE [As(req, auth) EXCEPT !.code = 200]
       /\ api_keys' = auth.api_keys
       /\ UNCHANGED <<issued, now>>

\* a day passes
Tick ==
    /\ now < MaxTime
    /\ now' = now + 1
    /\ resp' = NoResponse
    /\ UNCHANGED <<api_keys, issued>>

\* what the requests about API keys leave alone
beside_keys == <<limiter, allowed_model_types, cache_size, cache, last, resident, recency, threads, models, users>>

\* the requests a client can send about API keys with the credentials creds,
\* to an application that includes the routers `routers`
KeyRequests(routers, creds) ==
    \/ \E cred \in creds, days \in {None, 1} : CreateKey(routers, cred, days)
    \/ \E cred \in creds : ListKeys(routers, cred)
    \/ \E cred \in creds, k \in KeyNumbers : GetKey(routers, cred, k)
    \/ \E cred \in creds, k \in KeyNumbers, a \in OptionalBool :
           UpdateKey(routers, cred, k, a)
    \/ \E cred \in creds, k \in KeyNumbers : RevokeKey(routers, cred, k)
    \/ \E cred \in creds : AuthMe(cred)
    \/ \E cred \in creds : UsersMe(cred)
    \/ Tick

\* the application main.py builds
NextApp == KeyRequests(IncludedRouters, Credentials) /\ UNCHANGED beside_keys

SpecApp == Init /\ [][NextApp]_vars

\* the application tests/test_api_keys.py takes for granted: the one of
\* main.py with api_keys.router included as well.  Its client is alice, who
\* sends one credential per request: her access token or an API key.
NextKeys ==
    /\ KeyRequests(IncludedRouters \cup {"api_keys"},
                   {c \in Credentials : /\ c.bearer = Null \/ c.x_api_key = None
                                        /\ c.bearer \in {Null, "alice"}})
    /\ UNCHANGED beside_keys

SpecKeys == Init /\ [][NextKeys]_vars


\* ---- the users table: auth.py register, users.py update_current_user ----
MaxUsers == 2

\* the user ids an access token can carry: those of the rows the table can
\* hold, and one no row has
UserIds == 1..(MaxUsers + 1)

\* the email strings that requests carry
RawEmails == {"a@x.io", "a@X.IO", "A@x.io", "b@x.io"}

\* EmailStr: the validated value is the normalised address, whose domain is
\* in lower case and whose local part is as written
EmailStr(raw) == IF raw = "a@X.IO" THEN "a@x.io" ELSE raw

FullNames == {Null, "Al"}

\* db.query(User).filter(User.email == email)
UserByEmail(table, email) == SelectSeq(table, LAMBDA r : r.email = email)

\* db.query(User).filter(User.id == user_id)
UserById(table, user_id) == SelectSeq(table, LAMBDA r : r.id = user_id)

\* unique=True on users.email: whether the table accepts its rows
UniqueEmail(table) ==
    \A i, j \in 1..Len(table) : table[i].email = table[j].email => i = j

UserRequest(endpoint, user_id, email) ==
    [NoResponse EXCEPT !.endpoint = endpoint, !.user_id = user_id, !.email = email]

\* register without its look-up of the email
RegisterUnchecked(table, raw, full_name) ==
    LET email == EmailStr(raw)
        req == UserRequest("register", None, email)
        added == Append(table, [id |-> Len(table) + 1, email |-> email,
                                full_name |-> full_name])
    IN IF ~UniqueEmail(added)
       THEN [users |-> table, resp |-> HTTPError(req, 500, "Internal Server Error")]
       ELSE [users |-> added, resp |-> [req EXCEPT !.user_id = Len(table) + 1, !.code = 201]]

\* register: the uuid4 of the new row is the next unused identifier; a commit
\* the unique constraint rejects ends the request with a 500
Register(table, raw, full_name) ==
    LET email == EmailStr(raw)
        req == UserRequest("register", None, email)
        existing_user == UserByEmail(table, email)
        new_user == [id |-> Len(table) + 1, email |-> email, full_name |-> full_name]
    IN IF existing_user # <<>>
       THEN [users |-> table, resp |-> HTTPError(req, 409, "Email already registered")]
       ELSE IF ~UniqueEmail(Append(table, new_user))
       THEN [users |-> table, resp |-> HTTPError(req, 500, "Internal Server Error")]
       ELSE [users |-> Append(table, new_user),
             resp |-> [req EXCEPT !.user_id = new_user.id, !.code = 201]]

\* the table with the row of user_id replaced by row
PutUser(table, user_id, row) ==
    [i \in 1..Len(table) |-> IF table[i].id = user_id THEN row ELSE table[i]]

\* update_current_user with an access token that carries user_id; raw is
\* Null when the body has no email.  The handler changes the session's
\* object and commits at its end: a request that raises changes no row.
UpdateCurrentUser(table, user_id, full_name, raw) ==
    LET email == IF raw = Null THEN Null ELSE EmailStr(raw)
        req == UserRequest("update_current_user", user_id, email)
        found == UserById(table, user_id)
        current_user == found[1]
        named == IF full_name # Null THEN [current_user EXCEPT !.full_name = full_name]
                 ELSE current_user
        existing_user == SelectSeq(table, LAMBDA r : r.email = email /\ r.id # user_id)
        updated == PutUser(table, user_id,
                           IF email # Null THEN [named EXCEPT !.email = email] ELSE named)
    IN IF found = <<>>
       THEN [users |-> table, resp |-> HTTPError(req, 401, "User not found")]
       ELSE IF email # Null /\ existing_user # <<>>
       THEN [users |-> table, resp |-> HTTPError(req, 409, "Email already in use")]
       ELSE IF ~UniqueEmail(updated)
       THEN [users |-> table, resp |-> HTTPError(req, 500, "Internal Server Error")]
       ELSE [users |-> updated, resp |-> [req EXCEPT !.code = 200]]

RegisterCall(raw, full_name) ==
    /\ (Len(users) < MaxUsers \/ UserByEmail(users, EmailStr(raw)) # <<>>)
    /\ LET r == Register(users, raw, full_name)
       IN users' = r.users /\ resp' = r.resp

UpdateMe(user_id, full_name, raw) ==
    LET r == UpdateCurrentUser(users, user_id, full_name, raw)
    IN users' = r.users /\ resp' = r.resp

beside_users == <<limiter, allowed_model_types, cache_size, cache, last, resident, recency, threads, models, keys>>

NextUsers ==
    \/ \E raw \in RawEmails, n \in FullNames :
           RegisterCall(raw, n) /\ UNCHANGED beside_users
    \/ \E u \in UserIds, n \in FullNames, raw \in RawEmails \cup {Null} :
           UpdateMe(u, n, raw) /\ UNCHANGED beside_users

SpecUsers == Init /\ [][NextUsers]_vars


\* ---- app/core/rate_limiter.py -------------------------------------------------
MaxRequests == 2      \* max_requests of the calls
WindowSeconds == 3    \* window_seconds of the calls
MaxClock == 4         \* time.time() runs over 1..MaxClock
MaxChecks == 3        \* check_rate_limit calls in a run

\* str(current_time): the text of a float names that float and no other
StrOfTime(t) == <<"str", t>>

\* the store operations of check_rate_limit, on the sorted set of one key:
\* a set of members with their scores, one score per member
ZRemRangeByScore(zset, min, max) == {e \in zset : ~(min <= e.score /\ e.score <= max)}
ZCard(zset) == Cardinality(zset)
ZAdd(zset, member, score) ==
    {e \in zset : e.member # member} \cup {[member |-> member, score |-> score]}
ZScores(zset) == {e.score : e \in zset}

\* the lowest score of a non-empty sorted set: zrange(key, 0, 0, withscores=True)
ZRangeFirst(zset) == CHOOSE x \in ZScores(zset) : \A y \in ZScores(zset) : x <= y

\* what the store holds under the key at time t: an expired key is gone
Live(store, t) ==
    IF store.expires # None /\ t >= store.expires
    THEN [zset |-> {}, expires |-> None]
    ELSE store

\* the store operation that raises in a call, if any; with no client every
\* call raises at its first use of self.redis
StoreOps == {"zremrangebyscore", "zcard", "zadd", "expire", "zrange"}
Outages == StoreOps \cup {"never"}

\* the except clause, denying the request instead
FailClosed(store, max_requests, window_seconds, current_time) ==
    [redis |-> store, allowed |-> FALSE, remaining |-> 0,
     reset |-> current_time + window_seconds, recorded |-> FALSE, failed |-> TRUE]

\* the except clause of check_rate_limit
FailOpen(store, max_requests, window_seconds, current_time) ==
    [redis |-> store, allowed |-> TRUE, remaining |-> max_requests,
     reset |-> current_time + window_seconds, recorded |-> FALSE, failed |-> TRUE]

\* a sorted set becomes a key without expiry when it is created, and the key
\* goes when its last member does
Stored(store, zset) ==
    [zset |-> zset, expires |-> IF zset = {} \/ store.zset = {} THEN None ELSE store.expires]

\* check_rate_limit(key, max_requests, window_seconds) at time current_time,
\* by a limiter built with client ("Redis" or "None"), on the store's state
\* for the key; raises_at is the store operation that raises
CheckRateLimit(client, store, max_requests, window_seconds, current_time, raises_at) ==
    LET window_start == current_time - window_seconds
        live == Live(store, current_time)
        trimmed == Stored(live, ZRemRangeByScore(live.zset, 0, window_start))
        request_count == ZCard(trimmed.zset)
        added == Stored(trimmed, ZAdd(trimmed.zset, StrOfTime(current_time), current_time))
    IN IF client = "None" \/ raises_at = "zremrangebyscore"
       THEN FailOpen(live, max_requests, window_seconds, current_time)
       ELSE IF raises_at = "zcard"
       THEN FailOpen(trimmed, max_requests, window_seconds, current_time)
       ELSE IF request_count < max_requests
       THEN IF raises_at = "zadd"
            THEN FailOpen(trimmed, max_requests, window_seconds, current_time)
            ELSE IF raises_at = "expire"
            THEN [FailOpen(added, max_requests, window_seconds, current_time)
                     EXCEPT !.recorded = TRUE]
            ELSE [redis |-> [added EXCEPT !.expires = current_time + window_seconds],
                  allowed |-> TRUE, remaining |-> max_requests - request_count - 1,
                  reset |-> current_time + window_seconds, recorded |-> TRUE,
                  failed |-> FALSE]
       ELSE IF raises_at = "zrange"
       THEN FailOpen(trimmed, max_requests, window_seconds, current_time)
       ELSE [redis |-> trimmed, allowed |-> FALSE, remaining |-> 0,
             reset |-> IF trimmed.zset # {} THEN ZRangeFirst(trimmed.zset) + window_seconds
                       ELSE current_time + window_seconds,
             recorded |-> FALSE, failed |-> FALSE]

\* get_rate_limiter: the limiter is built on first use, with the client, or
\* with None when redis.Redis(...) raises
GetRateLimiter(limiter_now, constructed) ==
    IF limiter_now # "unset" THEN limiter_now
    ELSE IF constructed THEN "Redis" ELSE "None"

\* the time of the latest call (time.time() does not run backwards)
LastTime == IF checks = <<>> THEN 1 ELSE checks[Len(checks)].time

\* rate_limit_dependency(request, max_requests, window_seconds) at time t:
\* 429 when the call is not allowed
RateLimitDependency(t, constructed, raises_at) ==
    LET client == GetRateLimiter(rate_limiter, constructed)
        r == CheckRateLimit(client, redis, MaxRequests, WindowSeconds, t, raises_at)
    IN /\ Len(checks) < MaxChecks
       /\ t >= LastTime
       /\ rate_limiter' = client
       /\ redis' = r.redis
       /\ checks' = Append(checks, [time |-> t, allowed |-> r.allowed,
                                    remaining |-> r.remaining, recorded |-> r.recorded,
                                    failed |-> r.failed])
       /\ resp' = LET req == [Request("rate_limit_dependency", Null, None)
                                  EXCEPT !.raises_at = raises_at]
                  IN IF r.allowed THEN req ELSE HTTPError(req, 429, "Rate limit exceeded")

beside_limiter == <<allowed_model_types, cache_size, cache, last, resident, recency,
                    threads, models, keys, users>>

NextLimiter ==
    \E t \in 1..MaxClock, constructed \in BOOLEAN, raises_at \in Outages :
        RateLimitDependency(t, constructed, raises_at) /\ UNCHANGED beside_limiter

SpecLimiter == Init /\ [][NextLimiter]_vars

\* ---- the claims -------------------------------------------------------------
\* what the record of the most recent call says
LastLoad == last.op = "load_model"
LastHit == LastLoad /\ InDict(last.pre, last.model_id)
LastMiss == LastLoad /\ ~InDict(last.pre, last.model_id)
LastLoaded == LastMiss /\ ~last.raised
Evicted == Reported(last.log, "Evicted model")

\* C1: with a positive cache_size the number of cached entries never exceeds
\* cache_size after any sequence of load_model, remove_from_cache and
\* clear_cache calls, and an insert never goes into a full dict: what is left
\* of the dict after the eviction has fewer than cache_size entries.
C1_CapacityInvariant ==
    /\ Len(cache) <= cache_size
    /\ LastLoaded => Len(last.pre) - Cardinality(Evicted) < cache_size

\* a load that found the cache full, evicted and left it full
C1_Witness ==
    LastLoaded /\ Len(last.pre) = cache_size /\ Evicted # {} /\ Len(cache) = cache_size

\* C2: a miss while the cache is at capacity evicts the cached entry whose most
\* recent access (hit or successful load) is the oldest.
C2_LRUEviction ==
    [][(/\ last'.op = "load_model"
        /\ ~last'.raised
        /\ ~InDict(cache, last'.model_id)
        /\ Len(cache) = cache_size)
       => Keys(cache') = (Keys(cache) \ {Head(recency)}) \cup {last'.model_id}]_vars

\* C3: a load_model of a cached id returns the cached object, makes no storage
\* operation (no exists(), no joblib.load, no open/pickle.load), evicts nothing
\* and leaves the dict as it was.
C3_HitAvoidsIO ==
    LastHit =>
        /\ ~last.raised
        /\ last.ret = DictGet(last.pre, last.model_id)
        /\ last.io = <<>>
        /\ Evicted = {}
        /\ cache = last.pre

\* a hit while the file holds another object than the cached one
C3_Witness ==
    LastHit /\ last.file.jl /\ last.file.obj # last.ret

\* C4: a load_model that raises leaves the dict exactly as it was, with the id
\* not cached; the next load_model of that id goes to storage again, and if it
\* succeeds the id is cached.
C4_FailedLoadNotCached ==
    /\ (LastLoad /\ last.raised) =>
           /\ cache = last.pre
           /\ ~IsModelCached(cache, last.model_id)
    /\ (LastLoad /\ last.after = "retry") =>
           /\ last.io # <<>>
           /\ last.io[1] = "exists"
           /\ ~last.raised => IsModelCached(cache, last.model_id)

\* a retry that succeeded right after the failed load of the same id
C4_Witness ==
    LastLoad /\ last.after = "retry" /\ ~last.raised /\ IsModelCached(cache, last.model_id)

\* C5: every load_model call either raises an error or returns a model object;
\* when it returns, the id is cached and the returned object is the one stored
\* under the id.
C5_NoDroppedLoad ==
    LastLoad =>
        IF last.raised
        THEN last.exc.type # "None" /\ last.ret = None
        ELSE /\ last.exc = NoException
             /\ last.ret \in Objs
             /\ IsModelCached(cache, last.model_id)
             /\ DictGet(cache, last.model_id) = last.ret

\* a load through the pickle fallback that returned its model
C5_Witness ==
    LastLoaded /\ ~last.file.jl /\ last.ret = last.file.obj

\* C6: an id is cached exactly when it was loaded successfully and has not been
\* evicted, removed or cleared since; no id has two entries.
C6_EntrySet ==
    /\ Keys(cache) = resident
    /\ Cardinality(Keys(cache)) = Len(cache)

\* an eviction that left another, older entry in place
C6_Witness ==
    LastLoaded /\ Evicted # {} /\ Len(cache) >= 2 /\ Evicted \cap resident = {}

\* C7: on a miss of an existing file joblib is tried first and pickle only when
\* joblib failed; the load succeeds and the id is cached if either succeeds; if
\* both fail the call raises one Exception whose message carries both errors.
C7_DeserializationChain ==
    (LastMiss /\ last.file.exists) =>
        /\ Len(last.io) >= 2 /\ last.io[2] = "joblib.load"
        /\ ("pickle.load" \in {last.io[i] : i \in 1..Len(last.io)}) <=> ~last.file.jl
        /\ ~last.raised <=> (last.file.jl \/ last.file.pk)
        /\ ~last.raised => (IsModelCached(cache, last.model_id) /\ last.ret = last.file.obj)
        /\ last.raised =>
               /\ last.exc.type = "Exception"
               /\ JoblibErrorStr(last.file_path) \in {last.exc.msg[i] : i \in 1..Len(last.exc.msg)}
               /\ PickleErrorStr(last.file_path) \in {last.exc.msg[i] : i \in 1..Len(last.exc.msg)}

\* a miss that joblib could not read and pickle could
C7_Witness ==
    LastLoaded /\ ~last.file.jl /\ last.file.pk /\ IsModelCached(cache, last.model_id)

\* C8: on a miss of a missing file the call raises FileNotFoundError as it was
\* raised, after the one exists() test and without calling a deserializer, and
\* the dict is as it was.
C8_MissingArtifact ==
    (LastMiss /\ ~last.file.exists) =>
        /\ last.raised
        /\ last.exc = FileNotFound(last.file_path)
        /\ last.io = <<"exists">>
        /\ cache = last.pre

\* a missing file met while other models are cached
C8_Witness ==
    LastMiss /\ ~last.file.exists /\ last.raised /\ last.pre # <<>>

\* C9: remove_from_cache never raises; it removes the entry of its id and no
\* other (an id not cached: nothing); calling it again changes nothing.
C9_RemoveIdempotent ==
    last.op = "remove_from_cache" =>
        /\ ~last.raised
        /\ cache = SelectSeq(last.pre, LAMBDA e : e.key # last.model_id)
        /\ RemoveFromCache(cache, last.model_id).cache = cache
        /\ ~RemoveFromCache(cache, last.model_id).raised

\* a cached id removed while another entry stays
C9_Witness ==
    last.op = "remove_from_cache" /\ InDict(last.pre, last.model_id) /\ cache # <<>>

\* C10: after clear_cache no id that was cached is cached, and the next
\* load_model of such an id is a miss that goes to storage.
C10_ClearEmpties ==
    /\ last.op = "clear_cache" =>
           \A m \in Keys(last.pre) : ~IsModelCached(cache, m)
    /\ (LastLoad /\ last.after = "reload") =>
           /\ LastMiss
           /\ last.io # <<>> /\ last.io[1] = "exists"
           /\ ~last.raised => last.ret = last.file.obj

\* a model loaded again from storage right after the clear that dropped it
C10_Witness ==
    LastLoad /\ last.after = "reload" /\ ~last.raised /\ last.io # <<>>

\* C11: is_model_cached answers true exactly for an id that is in the cache (loaded
\* and not evicted, removed or cleared since) and leaves the dict, its order of
\* eviction included, as it was.
C11_PureQuery ==
    last.op = "is_model_cached" =>
        /\ last.answer <=> (last.model_id \in resident)
        /\ cache = last.pre
        /\ ~last.raised

\* a query that found its id cached behind an older entry
C11_Witness ==
    /\ last.op = "is_model_cached" /\ last.answer
    /\ Len(cache) >= 2 /\ cache[1].key = last.model_id

\* C12: a hit, a failed load and a successful miss below capacity leave every
\* cached entry in place and evict nothing; a successful miss at capacity
\* removes exactly one entry, and the insert finds room in the dict.
C12_EvictionOnlyAtCapacity ==
    LastLoad =>
        IF LastLoaded /\ Len(last.pre) >= cache_size
        THEN /\ Cardinality(Keys(last.pre) \ Keys(cache)) = 1
             /\ Keys(last.pre) \ Keys(cache) = Evicted
             /\ Len(last.pre) - 1 < cache_size
             /\ Len(cache) = Len(last.pre)
        ELSE /\ Evicted = {}
             /\ \A i \in 1..Len(last.pre) : cache[i] = last.pre[i]

\* a successful miss below capacity next to an entry that stays
C12_Witness ==
    LastLoaded /\ last.pre # <<>> /\ Len(last.pre) < cache_size /\ Len(cache) = Len(last.pre) + 1

\* the callers that are in, or have just left, a load_model call
Loaders == {t \in Threads : threads[t].op = "load_model"}

\* C13: while the callers run load_model calls for different identifiers whose
\* steps interleave, the number of cached entries never exceeds cache_size and
\* every identifier has one entry.
C13_ConcurrentCapacity ==
    (\A t, u \in Loaders : t # u => threads[t].model_id # threads[u].model_id)
    => /\ Len(cache) <= cache_size
       /\ Cardinality(Keys(cache)) = Len(cache)

\* C14: no two callers are loading the artifact of the same identifier from
\* storage at the same time.
C14_NoStampede ==
    \A t, u \in Loaders :
        (t # u /\ threads[t].pc = "l57" /\ threads[u].pc = "l57")
        => threads[t].model_id # threads[u].model_id

\* C15: when all callers have called load_model for the same identifier, with
\* no other call alongside, and no read of the artifact failed (storage was read
\* once, or several times with success), every caller has got a model object
\* and the identifier has exactly one entry in the cache.
C15_ConcurrentSameKey ==
    \A m \in ModelIds :
        (/\ \A t \in Threads : /\ threads[t].pc = "idle"
                               /\ threads[t].op = "load_model"
                               /\ threads[t].model_id = m
                               /\ threads[t].storage # "failed"
                               /\ ~threads[t].mixed
         /\ \E t \in Threads : threads[t].storage = "ok")
        => /\ \A t \in Threads : threads[t].exc = "None" /\ threads[t].model \in Objs
           /\ Cardinality({i \in 1..Len(cache) : cache[i].key = m}) = 1

\* C16: in every interleaving of load_model, remove_from_cache and clear_cache
\* calls, neither the eviction step of a miss (lines 82-83) nor
\* remove_from_cache (line 96) raises.
C16_EvictionNeverFails ==
    \A t \in Threads : threads[t].raised_at \notin {"l82", "l83", "l96"}

\* C17: at the predict endpoint a load_model that raises FileNotFoundError is
\* answered with 404 'Model file not found on disk'; a load_model that raises
\* the both-deserializers-failed Exception is answered with 500 'Prediction
\* failed: <str(e)>' and exactly one prediction log with status 'failed' is
\* handed to the background tasks; in both cases the model is not in the cache
\* afterwards.
C17_PredictErrorMapping ==
    resp.endpoint = "predict" =>
        /\ resp.loader = "FileNotFoundError" =>
               /\ resp.code = 404
               /\ resp.detail = Detail("Model file not found on disk")
               /\ ~IsModelCached(cache, resp.model_id)
        /\ resp.loader = "Exception" =>
               /\ resp.code = 500
               /\ resp.detail = Detail("Prediction failed: ")
                                    \o Str(BothFailed(FilePath(resp.model_id)))
               /\ resp.tasks = <<LogPrediction("failed",
                                               Str(BothFailed(FilePath(resp.model_id))))>>
               /\ ~IsModelCached(cache, resp.model_id)

\* a corrupt artifact answered with 500 while another model stays cached
C17_Witness ==
    /\ resp.endpoint = "predict" /\ resp.loader = "Exception" /\ resp.code = 500
    /\ Len(resp.tasks) = 1
    /\ cache # <<>>

\* the row of the "models" table with identifier model_id, in a set
RowOf(table, model_id) == {r \in Range(table) : r.id = model_id}

\* C18: list_models shows a caller only rows whose user_id is the caller's,
\* and a get, update, delete or analytics request for a model that belongs to
\* another user is answered with 403 and leaves the models table as it was.
C18_UserIsolation ==
    [][
        /\ resp'.endpoint = "list_models" =>
               \A i \in 1..Len(resp'.ids) :
                   \A r \in RowOf(models', resp'.ids[i]) : r.user_id = resp'.user
        /\ ( /\ resp'.endpoint \in {"get_model", "update_model", "delete_model",
                                    "get_model_analytics"}
             /\ \E r \in RowOf(models, resp'.model_id) : r.user_id # resp'.user )
           => resp'.code = 403 /\ models' = models
    ]_vars

\* bob's delete of alice's active model has been refused
C18_Witness ==
    /\ resp.endpoint = "delete_model" /\ resp.code = 403
    /\ \E r \in RowOf(models, resp.model_id) : r.user_id # resp.user /\ r.status = "active"
    /\ \E r \in Range(models) : r.user_id = resp.user

\* the versions of the rows before position i that have row i's user and name
EarlierVersions(table, i) ==
    {table[j].version : j \in {k \in 1..(i - 1) : /\ table[k].user_id = table[i].user_id
                                                  /\ table[k].name = table[i].name}}

\* the largest number of S, 0 for the empty set
Highest(S) == IF S = {} THEN 0 ELSE CHOOSE v \in S : \A w \in S : w <= v

\* C19: a user's first upload of a name has version 1 and every later upload
\* of that name by that user has the highest version the user's rows of that
\* name had at the time, plus 1, archived rows included; no two rows have the
\* same user, name and version.
C19_AutoVersioning ==
    /\ \A i \in 1..Len(models) :
           models[i].version = Highest(EarlierVersions(models, i)) + 1
    /\ \A i, j \in 1..Len(models) :
           ( /\ models[i].user_id = models[j].user_id
             /\ models[i].name = models[j].name
             /\ models[i].version = models[j].version ) => i = j

\* a second version uploaded after the first one was soft-deleted
C19_Witness ==
    /\ resp.endpoint = "upload_model" /\ resp.code = 201
    /\ \E r \in RowOf(models, resp.model_id) :
           /\ r.version = 2
           /\ \E s \in Range(models) :
                  /\ s.user_id = r.user_id /\ s.name = r.name
                  /\ s.version = 1 /\ s.status = "archived"

\* the endpoints that take their user from the credentials of the request
AuthEndpoints ==
    {"create_api_key", "list_api_keys", "get_api_key", "update_api_key", "revoke_api_key",
     "get_current_user_info", "get_current_user_profile"}

\* the rows of the key numbered k
KeyRows(table, k) == {r \in Range(table) : r.key_hash = HashApiKey(GenerateApiKey(k))}

\* whether the key numbered k exists, is active and is not expired at time t
Usable(table, k, t) ==
    \E r \in KeyRows(table, k) : r.is_active /\ (r.expires_at = None \/ r.expires_at >= t)

\* whether the credentials on record in r are good at time t
GoodCredentials(table, r, t) ==
    IF r.x_api_key # None THEN Usable(table, r.x_api_key, t) ELSE r.bearer # Null

\* the life of an API key, as a step of the application sees it at the
\* endpoints named: a create request with good credentials is answered 201
\* with a new active key of the caller; a request that presents a key runs
\* as the key's owner if the key exists, is active and is not expired, is
\* answered 401 if the key is deactivated, and runs as nobody otherwise; a
\* row that is gone never comes back; a get for an identifier without a row
\* is answered 404
Lifecycle(endpoints) ==
    /\ \A r \in Range(api_keys') :
           (\E q \in Range(api_keys) : q.id = r.id /\ q.key_hash = r.key_hash)
           \/ (r.id = issued + 1 /\ KeyRows(api_keys, r.id) = {})
    /\ resp'.endpoint \in endpoints =>
        /\ (resp'.endpoint = "create_api_key" /\ GoodCredentials(api_keys, resp', now)) =>
               /\ resp'.code = 201
               /\ \E r \in Range(api_keys') :
                      /\ r.id = resp'.ids[1] /\ r.user_id = resp'.user /\ r.is_active
                      /\ KeyById(api_keys, r.id) = <<>>
        /\ resp'.x_api_key # None =>
               /\ Usable(api_keys, resp'.x_api_key, now) =>
                      \A r \in KeyRows(api_keys, resp'.x_api_key) : resp'.user = r.user_id
               /\ (\E r \in KeyRows(api_keys, resp'.x_api_key) : ~r.is_active) =>
                      resp'.code = 401
               /\ ~Usable(api_keys, resp'.x_api_key, now) => resp'.user = Null
        /\ ( /\ resp'.endpoint = "get_api_key" /\ resp'.user # Null
             /\ KeyById(api_keys, resp'.model_id) = <<>> ) => resp'.code = 404

\* C20: a created API key authenticates its owner as long as it exists, is
\* active and is not expired; while its is_active is false every request
\* with it is answered 401; once revoked it is gone for good: get by id
\* answers 404 and the key never authenticates again.  Stated for every
\* endpoint that takes its user from the credentials, /auth/me (where the
\* tests present the key) included.
C20_ApiKeyLifecycle == [][Lifecycle(AuthEndpoints)]_vars

\* the same life of a key at the endpoints behind Depends(get_current_user),
\* for the application with api_keys.router included (SpecKeys)
KeyLifecycleBehindGetCurrentUser ==
    [][Lifecycle(AuthEndpoints \ {"get_current_user_info"})]_vars

\* SpecKeys: a deactivated key has just been refused while another key of
\* the same owner was revoked earlier
DeactivatedKeyRefused ==
    /\ resp.endpoint = "get_current_user_profile" /\ resp.code = 401
    /\ \E r \in KeyRows(api_keys, resp.x_api_key) : ~r.is_active
    /\ issued = 2 /\ Len(api_keys) = 1

\* C21: email uniqueness.  A register request whose email a user already has
\* is answered 409 and creates no user; an update_current_user request whose
\* email another user has is answered 409 and changes nothing; and after
\* every request no two users share an email.
C21_EmailUniqueness ==
    [][
        /\ (/\ resp'.endpoint = "register"
            /\ \E r \in Range(users) : r.email = resp'.email)
           => resp'.code = 409 /\ users' = users
        /\ (/\ resp'.endpoint = "update_current_user"
            /\ \E r \in Range(users) : r.email = resp'.email /\ r.id # resp'.user_id
            /\ \E r \in Range(users) : r.id = resp'.user_id)
           => resp'.code = 409 /\ users' = users
        /\ \A i, j \in 1..Len(users') : users'[i].email = users'[j].email => i = j
    ]_vars

\* the first user, whose email is b@x.io, has just been refused the email
\* a@x.io of the second user
C21_Witness ==
    /\ resp.endpoint = "update_current_user" /\ resp.code = 409
    /\ resp.email = "a@x.io"
    /\ \E r \in Range(users) : r.id = resp.user_id /\ r.id = 1 /\ r.email = "b@x.io"
    /\ \E r \in Range(users) : r.id = 2 /\ r.email = "a@x.io"

\* the rows of user in table, and the versions of the rows of table that
\* have the user and the name of row
RowsOf(table, user) == {r \in Range(table) : r.user_id = user}
VersionsLike(table, row) ==
    {r.version : r \in {q \in Range(table) : q.user_id = row.user_id /\ q.name = row.name}}

C25_UnsupportedModelType ==
    (/\ resp.endpoint = "predict"
     /\ resp.loader = "returned"
     /\ \E r \in RowOf(models, resp.model_id) : r.model_type # "sklearn")
    => /\ resp.code = 501
       /\ \A i \in 1..Len(resp.tasks) : resp.tasks[i].status # "failed"

\* the calls of the run that were allowed at a time in the window of
\* window_seconds that ends at time t (after t - window_seconds, up to t)
AllowedIn(t) ==
    {i \in 1..Len(checks) :
        checks[i].allowed /\ t - WindowSeconds < checks[i].time /\ checks[i].time <= t}

\* no store operation has raised in the run
WorkingStore == \A i \in 1..Len(checks) : ~checks[i].failed

\* C26: with a working store, at most max_requests of the check_rate_limit
\* calls whose timestamps fall within one window of window_seconds are
\* allowed, calls with equal timestamps included; a denied call is not
\* recorded in the store, leaves the recorded calls in place and reports
\* remaining 0.
C26_RateLimitBound ==
    WorkingStore =>
        /\ \A t \in 1..MaxClock : Cardinality(AllowedIn(t)) <= MaxRequests
        /\ \A i \in 1..Len(checks) :
               ~checks[i].allowed => ~checks[i].recorded /\ checks[i].remaining = 0

\* SpecLimiter: the bound of C26 in the runs of a working store in which no
\* two allowed calls carry the same timestamp
BoundForDistinctTimestamps ==
    (/\ WorkingStore
     /\ \A i, j \in 1..Len(checks) :
            (checks[i].allowed /\ checks[j].allowed /\ checks[i].time = checks[j].time)
            => i = j)
    => \A t \in 1..MaxClock : Cardinality(AllowedIn(t)) <= MaxRequests

\* SpecLimiter: a call was denied although every earlier call had a timestamp
\* of its own
DeniedWithDistinctTimestamps ==
    /\ WorkingStore /\ Len(checks) = 3 /\ ~checks[3].allowed
    /\ checks[1].time < checks[2].time /\ checks[2].time < checks[3].time

\* C27: the rate limiter fails open.  A check_rate_limit call in which a
\* store operation raises (the limiter built with no client raises at its
\* first use of it; zremrangebyscore and zcard run in every call;
\* checks[..].failed: the call went through the except clause) returns
\* allowed = true and remaining = max_requests, and rate_limit_dependency does
\* not answer 429.
C27_FailsOpen ==
    resp.endpoint = "rate_limit_dependency" =>
        LET c == checks[Len(checks)]
        IN /\ c.failed <=> \/ rate_limiter = "None"
                           \/ resp.raises_at \in {"zremrangebyscore", "zcard"}
                           \/ resp.raises_at \in {"zadd", "expire"} /\ c.remaining # 0
                           \/ resp.raises_at = "zrange" /\ ~c.recorded
           /\ c.failed => c.allowed /\ c.remaining = MaxRequests /\ resp.code # 429

\* zcard has just raised while the window held max_requests recorded calls:
\* the call was allowed
C27_Witness ==
    /\ resp.endpoint = "rate_limit_dependency" /\ resp.raises_at = "zcard"
    /\ rate_limiter = "Redis"
    /\ ZCard(redis.zset) = MaxRequests
    /\ checks[Len(checks)].allowed /\ checks[Len(checks)].remaining = MaxRequests

\* C28: a predict request by a user for a model that another user owns never
\* calls the loader for it (so never loads it into the cache) and is never
\* answered with a prediction.
C28_PredictOwnership ==
    (/\ resp.endpoint = "predict"
     /\ \E r \in RowOf(models, resp.model_id) : r.user_id # resp.user)
    => resp.loader = "not called" /\ resp.code # 200

\* C29: the 'cached' field of a successful predict response is true, after a
\* cache hit and after a load from disk by the request alike: the model is
\* in the cache when the handler reads is_model_cached.
C29_CachedAlwaysTrue ==
    (resp.endpoint = "predict" /\ resp.code = 200)
    => resp.cached /\ IsModelCached(cache, resp.model_id)

\* a second model has just been served by a loader of capacity 1, which
\* holds it and nothing else
C29_Witness ==
    /\ resp.endpoint = "predict" /\ resp.code = 200 /\ resp.cached
    /\ resp.model_id = 2 /\ cache_size = 1 /\ Keys(cache) = {2}

\* C30: a redundant insert never costs another entry.  When a load_model
\* call that missed on X reaches the eviction of its insert (line 83) while X
\* is cached, put there by a concurrent load_model of X, and the cache is at
\* capacity, the eviction removes no entry other than X; and an insert of a
\* cached X (line 86) that follows such an eviction leaves cache_size entries.
C30_RedundantInsertHarmless ==
    [][
        \A t \in Threads :
            /\ (/\ threads[t].pc = "l83" /\ threads'[t].pc = "l86"
                /\ InDict(cache, threads[t].model_id)
                /\ Len(cache) = cache_size)
               => Keys(cache) \ Keys(cache') \subseteq {threads[t].model_id}
            /\ (/\ threads[t].pc = "l86" /\ threads'[t].pc = "idle"
                /\ threads[t].oldest_key # None
                /\ InDict(cache, threads[t].model_id))
               => Len(cache') = cache_size
    ]_vars

====
